---- MODULE Spec2Model ----
(***************************************************************************)
(* State-machine model of the game session and economy of src/src/App.jsx   *)
(* (the App component): its React state, its timer callbacks, its effects   *)
(* and its click handlers.                                                   *)
(*                                                                           *)
(* Numbers.  Money, shares and prices are JavaScript numbers; they are      *)
(* modelled as exact rationals <<n, d>> (d > 0, lowest terms), so rounding  *)
(* of IEEE doubles is not represented.  mu and sigma are kept as integer    *)
(* multiples of 1/1000.                                                      *)
(*                                                                           *)
(* Randomness.  Math.random() is a nondeterministic choice: the next price  *)
(* is drawn from PriceLevels, the drift step from MuSteps and a volatility  *)
(* shock from SigmaShocks.                                                   *)
(*                                                                           *)
(* Rounding.  The specification SpecFloat repeats the trade branches of      *)
(* handleClick in binary floating point, every operation rounded to nearest  *)
(* (ties to even) as in IEEE 754, with a significand of SigBits bits where   *)
(* a JavaScript number has 53 and with no exponent limits.                   *)
(*                                                                           *)
(* Price series.  Only the length, the first and the last element of the    *)
(* array `prices` are kept: nothing in the session logic reads the rest.    *)
(*                                                                           *)
(* Scheduling.  Every handler or timer callback together with the render    *)
(* that follows it is one step.  The two effects that write state (the      *)
(* finish effect and the candle padding effect) are steps of their own,     *)
(* enabled in the states whose render makes their body run.                 *)
(***************************************************************************)
EXTENDS Integers, Sequences, FiniteSets, TLC

(* ----------------------------- rationals ----------------------------- *)
RECURSIVE GCD(_, _)
GCD(a, b) == IF b = 0 THEN a ELSE GCD(b, a % b)

Abs(x) == IF x < 0 THEN -x ELSE x

Norm(n, d) ==
  LET g == GCD(Abs(n), Abs(d))
      s == IF d < 0 THEN -1 ELSE 1
  IN  <<(s * n) \div g, (s * d) \div g>>

Rat(n) == <<n, 1>>
RAdd(x, y) ==
  LET g == GCD(x[2], y[2])
  IN  Norm(x[1] * (y[2] \div g) + y[1] * (x[2] \div g), (x[2] \div g) * y[2])
RSub(x, y) == RAdd(x, <<-y[1], y[2]>>)
RMul(x, y) == Norm(x[1] * y[1], x[2] * y[2])
RDiv(x, y) == Norm(x[1] * y[2], x[2] * y[1])
RLt(x, y)  == x[1] * y[2] < y[1] * x[2]
RLe(x, y)  == x[1] * y[2] <= y[1] * x[2]

(* ---------------------- binary floating point ------------------------ *)
SigBits == 10   \* bits of the significand

RECURSIVE Pow2(_)
Pow2(k) == IF k = 0 THEN 1 ELSE 2 * Pow2(k - 1)

\* n / d > 0 as <<N, D, up, down>> with N / D = (n / d) * 2^down / 2^up and
\* 2^(SigBits-1) <= N / D < 2^SigBits
Scaled(n, d) ==
  IF n \div d >= Pow2(SigBits)
  THEN LET up == CHOOSE k \in 1..30 :
                   /\ Pow2(SigBits - 1) <= (n \div d) \div Pow2(k)
                   /\ (n \div d) \div Pow2(k) < Pow2(SigBits)
       IN  <<n, d * Pow2(up), up, 0>>
  ELSE LET down == CHOOSE j \in 0..30 :
                     /\ Pow2(SigBits - 1) <= (n * Pow2(j)) \div d
                     /\ (n * Pow2(j)) \div d < Pow2(SigBits)
       IN  <<n * Pow2(down), d, 0, down>>

\* n / d > 0 rounded to SigBits significant bits, ties to even
RoundPos(n, d) ==
  LET sc == Scaled(n, d)
      m0 == sc[1] \div sc[2]
      r  == sc[1] % sc[2]
      m  == IF 2 * r > sc[2] \/ (2 * r = sc[2] /\ m0 % 2 = 1) THEN m0 + 1 ELSE m0
  IN  Norm(m * Pow2(sc[3]), Pow2(sc[4]))

Fl(x) ==
  IF x[1] = 0 THEN Rat(0)
  ELSE IF x[1] < 0 THEN RSub(Rat(0), RoundPos(-x[1], x[2]))
  ELSE RoundPos(x[1], x[2])

\* the JavaScript operators + - * / on numbers
FlAdd(x, y) == Fl(RAdd(x, y))
FlSub(x, y) == Fl(RSub(x, y))
FlMul(x, y) == Fl(RMul(x, y))
FlDiv(x, y) == Fl(RDiv(x, y))

(* ------------------------- program constants ------------------------- *)
LINE_INIT       == 10     \* initial series length, line chart
CANDLE_INIT     == 50     \* initial series length, candle chart
LINE_MAX        == 100    \* maxPoints, line chart
CANDLE_MAX      == 300    \* maxPoints, candle chart
LINE_TICK_MS    == 1000   \* tickMs, line chart
CANDLE_TICK_MS  == 333    \* tickMs, candle chart
START_PRICE     == 100    \* generateInitialPrices(_, 100, ...)
INITIAL_BALANCE == 100    \* useState(100)
SESSION_SECONDS == 60     \* useState(60), setTimeLeft(60)
MIN_BUY_BALANCE == 10     \* balance >= 10
MU_INIT         == 1      \* 0.001, in thousandths
SIGMA_INIT      == 100    \* 0.1, in thousandths
SIGMA_RESET     == 10     \* 0.01, in thousandths
PERCENT_INIT    == 50     \* useState(50)

(* ------------------------------ bounds ------------------------------- *)
MaxEvents == 4   \* price ticks, executed trades and start gestures in a run
MaxMu     == 3   \* |mu| is kept within MaxMu thousandths

PriceLevels    == {100, 140}     \* values generatePrice may return
MuSteps        == {-1, 1}        \* (Math.random() - 0.5) / 500, thousandths
SigmaShocks    == {20}           \* Math.random() / 25, thousandths
PercentChoices == {50, 90}       \* slider positions tried
FloatPriceLevels == {91, 100}    \* values generatePrice may return, SpecFloat
SliderPositions  == {10, 20, 30, 40, 50, 60, 70, 80, 90, 100}  \* min 10, max 100, step 10
PurchaseTried  == {"dark-purple", "candle", "sma_short"}  \* shop items tried
ThemeTried     == {"dark-default", "dark-purple"}         \* themes applied
StatTried      == {"sma_short"}                           \* indicators toggled

(* ----------------------------- catalogue ----------------------------- *)
ThemeIds == {"dark-default", "dark-purple", "dark-green", "light-moss"}
ChartIds == {"line", "candle"}
StatIds  == {"sma_short", "ema_mid", "sma_long"}
ItemIds  == ThemeIds \cup ChartIds \cup StatIds

ItemType(id) ==
  IF id \in ThemeIds THEN "theme" ELSE IF id \in ChartIds THEN "chart" ELSE "stat"

ItemPrice(id) ==
  CASE id \in {"dark-default", "line"} -> 0
    [] id = "candle" -> 25
    [] OTHER -> 5

SHOP_ITEMS == {id \in ItemIds : ItemPrice(id) > 0 \/ id \in StatIds}

VARIABLES
  prices,           \* [len, first, last] of the array `prices`
  balance,          \* cash, a rational
  portfolio,        \* shares held, a rational
  timeLeft,
  mu, sigma,        \* thousandths
  running, finished, initialClick,
  purchasePercent,
  showSettings, showShop,
  savedCoins,       \* reward currency, a rational
  unlockedThemes, unlockedCharts, unlockedStats,  \* arrays, as id -> occurrences
  selectedThemeId, selectedChart,
  enabledStats,     \* array, as id -> occurrences
  priceTimers,      \* live intervals of the price effect: chart of the run -> count
  countdownTimers,  \* live intervals of the countdown effect
  nEvents,          \* bounding counter: ticks, executed trades, start gestures
  settled           \* runs of the finish effect's body since the last start gesture

sessionVars == <<prices, balance, portfolio, timeLeft, mu, sigma,
                 running, finished, initialClick>>
economyVars == <<savedCoins, unlockedThemes, unlockedCharts, unlockedStats,
                 selectedThemeId, selectedChart, enabledStats>>
uiVars      == <<purchasePercent, showSettings, showShop>>
timerVars   == <<priceTimers, countdownTimers>>
boundVars   == <<nEvents>>
vars == <<sessionVars, economyVars, uiVars, timerVars, boundVars, settled>>


(* ------------------------------ helpers ------------------------------ *)
Min(a, b) == IF a < b THEN a ELSE b

\* an array of ids, kept as id -> number of occurrences
EmptyArr(ids) == [i \in ids |-> 0]
Includes(arr, id) == arr[id] > 0
Push(arr, id) == [arr EXCEPT ![id] = @ + 1]
Without(arr, id) == [arr EXCEPT ![id] = 0]

\* generateInitialPrices(len, start, mu, sigma): the series it may return
generateInitialPrices(len, start) ==
  {[len |-> len, first |-> start, last |-> p] :
     p \in (IF len = 1 THEN {start} ELSE PriceLevels)}

\* maxPoints of the price tick effect
maxPoints(chart) == IF chart = "candle" THEN CANDLE_MAX ELSE LINE_MAX

\* tickMs of the price tick effect
tickMs(chart) == IF chart = "candle" THEN CANDLE_TICK_MS ELSE LINE_TICK_MS

\* setInterval / clearInterval on a table of live intervals
setInterval(timers, key) == [timers EXCEPT ![key] = @ + 1]
clearInterval(timers, key) == [timers EXCEPT ![key] = IF @ > 0 THEN @ - 1 ELSE 0]

\* faulty variant: the cleanup of the price effect is left out
priceTimerEffect_NoCleanup(timers, oldChart, newChart) ==
  setInterval(timers, newChart)

\* the price effect re-run because mu, sigma or selectedChart changed: the
\* cleanup of the previous run, then the body
priceTimerEffect(timers, oldChart, newChart) ==
  setInterval(clearInterval(timers, oldChart), newChart)

\* faulty variant: the cleanup of the countdown effect is left out
countdownEffect_NoCleanup(n, nowRunning) ==
  IF nowRunning THEN n + 1 ELSE n

\* the countdown effect re-run because running changed: the cleanup of the
\* previous run (which had set an interval iff running was true), then the body
countdownEffect(n, nowRunning) ==
  IF nowRunning THEN n + 1 ELSE IF n > 0 THEN n - 1 ELSE 0

\* [...prev, next].slice(-maxPoints): the series that may result
appendAndSlice(prev, next, maxPts) ==
  IF prev.len + 1 <= maxPts
  THEN {[len |-> prev.len + 1, first |-> prev.first, last |-> next]}
  ELSE {[len |-> maxPts, first |-> f, last |-> next] :
          f \in (IF maxPts = 1 THEN {next} ELSE PriceLevels)}

\* handleClick, buy: amount = (balance * (purchasePercent / 100)) / price
buyAmount(bal, pct, price) == RDiv(RMul(bal, Norm(pct, 100)), Rat(price))

\* handleClick, buy: spent = amount * price
buySpent(amount, price) == RMul(amount, Rat(price))

\* faulty variant: any positive balance may buy
canBuy_Positive(bal) == RLt(Rat(0), bal)

\* handleClick, buy: balance >= 10
canBuy(bal) == RLe(Rat(MIN_BUY_BALANCE), bal)

\* the same expressions as JavaScript evaluates them, operation by operation
buyAmountFl(bal, pct, price) ==
  FlDiv(FlMul(bal, FlDiv(Rat(pct), Rat(100))), Rat(price))

buySpentFl(amount, price) == FlMul(amount, Rat(price))

earnedAtFl(shares, price) == FlMul(shares, Rat(price))

\* setBalance(b => b - spent), setPortfolio(p => p + amount) of the buy branch
cashAfterBuyFl(bal, pct, price) ==
  FlSub(bal, buySpentFl(buyAmountFl(bal, pct, price), price))

sharesAfterBuyFl(shares, bal, pct, price) ==
  FlAdd(shares, buyAmountFl(bal, pct, price))

\* setBalance(b => b + earned) of the sell branch
cashAfterSellFl(bal, shares, price) == FlAdd(bal, earnedAtFl(shares, price))

\* faulty variant: the shares are credited without the price
earnedAt_NoPrice(shares, price) == shares

\* handleClick, sell and finish effect: earned = portfolio * price
earnedAt(shares, price) == RMul(shares, Rat(price))

\* finish effect: profitPct = (newBalance - 100) / 100
profitPct(newBalance) == RDiv(RSub(newBalance, Rat(100)), Rat(100))

\* faulty variant: the profit is added whatever its sign
coinsAfterFinish_Signed(c, pp) == RAdd(c, RMul(pp, Rat(100)))

\* finish effect: if (profitPct > 0) setSavedCoins(c => c + profitPct * 100)
coinsAfterFinish(c, pp) ==
  IF RLt(Rat(0), pp) THEN RAdd(c, RMul(pp, Rat(100))) ELSE c

(* ------------------------------- Init -------------------------------- *)
\* the state of the component after its first render and effects
Init ==
  /\ prices \in generateInitialPrices(LINE_INIT, START_PRICE)
  /\ balance = Rat(INITIAL_BALANCE)
  /\ portfolio = Rat(0)
  /\ timeLeft = SESSION_SECONDS
  /\ mu = MU_INIT
  /\ sigma = SIGMA_INIT
  /\ running = FALSE
  /\ finished = FALSE
  /\ initialClick = FALSE
  /\ purchasePercent = PERCENT_INIT
  /\ showSettings = FALSE
  /\ showShop = FALSE
  /\ savedCoins = Rat(0)
  /\ unlockedThemes = Push(EmptyArr(ThemeIds), "dark-default")
  /\ selectedThemeId = "dark-default"
  /\ unlockedCharts = Push(EmptyArr(ChartIds), "line")
  /\ selectedChart = "line"
  /\ unlockedStats = EmptyArr(StatIds)
  /\ enabledStats = EmptyArr(StatIds)
  /\ priceTimers = setInterval(EmptyArr(ChartIds), "line")
  /\ countdownTimers = 0
  /\ nEvents = 0
  /\ settled = 0

(* --------------------------- timer effects ---------------------------- *)
\* the two effects that own intervals, as run by the render that ends a step:
\* each re-runs iff one of its dependencies changed in the step
runTimerEffects ==
  /\ priceTimers' =
       IF <<mu, sigma, selectedChart>>' = <<mu, sigma, selectedChart>>
       THEN priceTimers
       ELSE priceTimerEffect(priceTimers, selectedChart, selectedChart')
  /\ countdownTimers' =
       IF running' = running
       THEN countdownTimers
       ELSE countdownEffect(countdownTimers, running')

(* --------------------------- timer callbacks -------------------------- *)
\* the setInterval callback of the price effect, for a live interval; maxPoints
\* is the one of the effect run that created the interval
tickFrom(levels) ==
  /\ \E chart \in ChartIds, next \in levels :
       /\ priceTimers[chart] > 0
       /\ prices' \in appendAndSlice(prices, next, maxPoints(chart))
  /\ \E d \in MuSteps : /\ Abs(mu + d) <= MaxMu
                        /\ mu' = mu + d
  /\ sigma' \in {sigma} \cup SigmaShocks
  /\ UNCHANGED <<balance, portfolio, timeLeft, running, finished, initialClick,
                 economyVars, uiVars, settled>>
  /\ runTimerEffects

PriceTick ==
  /\ nEvents < MaxEvents
  /\ tickFrom(PriceLevels)
  /\ nEvents' = nEvents + 1

\* the same callback, with the prices of SpecFloat
PriceTickFl ==
  /\ nEvents < MaxEvents
  /\ tickFrom(FloatPriceLevels)
  /\ nEvents' = nEvents + 1

\* faulty variant: the countdown stands still while a popup is open
CountdownTick_PausedByPopup ==
  /\ countdownTimers > 0
  /\ ~(showSettings \/ showShop)
  /\ timeLeft' = IF timeLeft > 0 THEN timeLeft - 1 ELSE 0
  /\ UNCHANGED <<prices, balance, portfolio, mu, sigma, running, finished,
                 initialClick, economyVars, uiVars, boundVars, settled>>
  /\ runTimerEffects

\* the setInterval callback of the countdown effect, for a live interval
CountdownTick ==
  /\ countdownTimers > 0
  /\ timeLeft' = IF timeLeft > 0 THEN timeLeft - 1 ELSE 0
  /\ UNCHANGED <<prices, balance, portfolio, mu, sigma, running, finished,
                 initialClick, economyVars, uiVars, boundVars, settled>>
  /\ runTimerEffects

(* ------------------------------ effects ------------------------------ *)
\* "Ensure initial data size increases when switching to candle"
PadEffect ==
  /\ selectedChart = "candle"
  /\ prices.len < CANDLE_INIT
  /\ \E p \in PriceLevels :
       prices' = [len |-> CANDLE_INIT, first |-> prices.first, last |-> p]
  /\ UNCHANGED <<balance, portfolio, timeLeft, mu, sigma, running, finished,
                 initialClick, economyVars, uiVars, boundVars, settled>>
  /\ runTimerEffects

\* the body of the finish effect up to setPortfolio
settle ==
  LET finalPrice == prices.last
      earned     == earnedAt(portfolio, finalPrice)
      newBalance == RAdd(balance, earned)
  IN  /\ savedCoins' = coinsAfterFinish(savedCoins, profitPct(newBalance))
      /\ balance' = newBalance

\* faulty variant: setRunning(false) is left out
FinishEffect_KeepsRunning ==
  /\ ~(~running \/ timeLeft > 0)
  /\ settle
  /\ portfolio' = Rat(0)
  /\ finished' = TRUE
  /\ settled' = settled + 1
  /\ UNCHANGED <<prices, timeLeft, mu, sigma, initialClick, running,
                 unlockedThemes, unlockedCharts, unlockedStats,
                 selectedThemeId, selectedChart, enabledStats, uiVars, boundVars>>
  /\ runTimerEffects

\* faulty variant: setPortfolio(0) is left out
FinishEffect_KeepsShares ==
  /\ ~(~running \/ timeLeft > 0)
  /\ settle
  /\ running' = FALSE
  /\ finished' = TRUE
  /\ settled' = settled + 1
  /\ UNCHANGED <<prices, timeLeft, mu, sigma, initialClick, portfolio,
                 unlockedThemes, unlockedCharts, unlockedStats,
                 selectedThemeId, selectedChart, enabledStats, uiVars, boundVars>>
  /\ runTimerEffects

\* "When timer hits 0, finish the game"
FinishEffect ==
  /\ ~(~running \/ timeLeft > 0)
  /\ settle
  /\ portfolio' = Rat(0)
  /\ running' = FALSE
  /\ finished' = TRUE
  /\ settled' = settled + 1
  /\ UNCHANGED <<prices, timeLeft, mu, sigma, initialClick,
                 unlockedThemes, unlockedCharts, unlockedStats,
                 selectedThemeId, selectedChart, enabledStats, uiVars, boundVars>>
  /\ runTimerEffects

(* ------------------------------ handlers ----------------------------- *)
\* faulty variant: setRunning(true) is left out
startGame_NotRunning ==
  /\ nEvents < MaxEvents
  /\ initialClick' = TRUE
  /\ timeLeft' = SESSION_SECONDS
  /\ nEvents' = nEvents + 1
  /\ settled' = 0
  /\ UNCHANGED <<prices, balance, portfolio, mu, sigma, running, finished,
                 economyVars, uiVars>>
  /\ runTimerEffects

\* handleClick, the branch "First right-click starts the game"
startGame ==
  /\ nEvents < MaxEvents
  /\ initialClick' = TRUE
  /\ running' = TRUE
  /\ timeLeft' = SESSION_SECONDS
  /\ nEvents' = nEvents + 1
  /\ settled' = 0
  /\ UNCHANGED <<prices, balance, portfolio, mu, sigma, finished,
                 economyVars, uiVars>>
  /\ runTimerEffects

\* handleClick, the branch "Right = buy"
buy(price) ==
  IF canBuy(balance)
  THEN /\ nEvents < MaxEvents
       /\ LET amount == buyAmount(balance, purchasePercent, price)
              spent  == buySpent(amount, price)
          IN  /\ balance' = RSub(balance, spent)
              /\ portfolio' = RAdd(portfolio, amount)
       /\ nEvents' = nEvents + 1
       /\ UNCHANGED <<prices, timeLeft, mu, sigma, running, finished, initialClick,
                      economyVars, uiVars, settled>>
       /\ runTimerEffects
  ELSE UNCHANGED vars

\* handleClick, the branch "Left = sell all"
sellAll(price) ==
  IF RLt(Rat(0), portfolio)
  THEN /\ nEvents < MaxEvents
       /\ balance' = RAdd(balance, earnedAt(portfolio, price))
       /\ portfolio' = Rat(0)
       /\ nEvents' = nEvents + 1
       /\ UNCHANGED <<prices, timeLeft, mu, sigma, running, finished, initialClick,
                      economyVars, uiVars, settled>>
       /\ runTimerEffects
  ELSE UNCHANGED vars

\* faulty variant: the first click starts the game whichever half it lands on
handleClick_AnyHalfStarts(rightHalf) ==
  IF showSettings \/ showShop \/ finished
  THEN UNCHANGED vars
  ELSE IF ~initialClick
  THEN startGame
  ELSE IF ~running \/ ~initialClick
  THEN UNCHANGED vars
  ELSE IF rightHalf
  THEN buy(prices.last)
  ELSE sellAll(prices.last)

\* handleClick(e); rightHalf is clickX > width / 2
handleClick(rightHalf) ==
  IF showSettings \/ showShop \/ finished
  THEN UNCHANGED vars
  ELSE IF ~initialClick /\ rightHalf
  THEN startGame
  ELSE IF ~running \/ ~initialClick
  THEN UNCHANGED vars
  ELSE IF rightHalf
  THEN buy(prices.last)
  ELSE sellAll(prices.last)

\* handleClick in floating point: the branch "Right = buy"
buyFl(price) ==
  IF canBuy(balance)
  THEN /\ nEvents < MaxEvents
       /\ balance' = cashAfterBuyFl(balance, purchasePercent, price)
       /\ portfolio' = sharesAfterBuyFl(portfolio, balance, purchasePercent, price)
       /\ nEvents' = nEvents + 1
       /\ UNCHANGED <<prices, timeLeft, mu, sigma, running, finished, initialClick,
                      economyVars, uiVars, settled>>
       /\ runTimerEffects
  ELSE UNCHANGED vars

\* handleClick in floating point: the branch "Left = sell all"
sellAllFl(price) ==
  IF RLt(Rat(0), portfolio)
  THEN /\ nEvents < MaxEvents
       /\ balance' = cashAfterSellFl(balance, portfolio, price)
       /\ portfolio' = Rat(0)
       /\ nEvents' = nEvents + 1
       /\ UNCHANGED <<prices, timeLeft, mu, sigma, running, finished, initialClick,
                      economyVars, uiVars, settled>>
       /\ runTimerEffects
  ELSE UNCHANGED vars

\* handleClick(e) with the trade branches in floating point
handleClickFl(rightHalf) ==
  IF showSettings \/ showShop \/ finished
  THEN UNCHANGED vars
  ELSE IF ~initialClick /\ rightHalf
  THEN startGame
  ELSE IF ~running \/ ~initialClick
  THEN UNCHANGED vars
  ELSE IF rightHalf
  THEN buyFl(prices.last)
  ELSE sellAllFl(prices.last)

\* faulty variant: setInitialClick(false) is left out
resetToHome_KeepsInitialClick ==
  /\ balance' = Rat(INITIAL_BALANCE)
  /\ portfolio' = Rat(0)
  /\ timeLeft' = SESSION_SECONDS
  /\ mu' = MU_INIT
  /\ sigma' = SIGMA_RESET
  /\ running' = FALSE
  /\ finished' = FALSE
  /\ LET initLen == IF selectedChart = "candle" THEN CANDLE_INIT ELSE LINE_INIT
     IN  prices' \in generateInitialPrices(initLen, START_PRICE)
  /\ settled' = 0
  /\ UNCHANGED <<initialClick, economyVars, uiVars, boundVars>>
  /\ runTimerEffects

\* faulty variant: setFinished(false) is left out
resetToHome_KeepsFinished ==
  /\ balance' = Rat(INITIAL_BALANCE)
  /\ portfolio' = Rat(0)
  /\ timeLeft' = SESSION_SECONDS
  /\ mu' = MU_INIT
  /\ sigma' = SIGMA_RESET
  /\ running' = FALSE
  /\ initialClick' = FALSE
  /\ LET initLen == IF selectedChart = "candle" THEN CANDLE_INIT ELSE LINE_INIT
     IN  prices' \in generateInitialPrices(initLen, START_PRICE)
  /\ settled' = 0
  /\ UNCHANGED <<finished, economyVars, uiVars, boundVars>>
  /\ runTimerEffects

\* faulty variant: reset pays out the profit of the session it abandons
resetToHome_Mints ==
  /\ balance' = Rat(INITIAL_BALANCE)
  /\ portfolio' = Rat(0)
  /\ timeLeft' = SESSION_SECONDS
  /\ mu' = MU_INIT
  /\ sigma' = SIGMA_RESET
  /\ running' = FALSE
  /\ finished' = FALSE
  /\ initialClick' = FALSE
  /\ LET initLen == IF selectedChart = "candle" THEN CANDLE_INIT ELSE LINE_INIT
     IN  prices' \in generateInitialPrices(initLen, START_PRICE)
  /\ settled' = 0
  /\ savedCoins' = coinsAfterFinish(savedCoins,
                      profitPct(RAdd(balance, earnedAt(portfolio, prices.last))))
  /\ UNCHANGED <<unlockedThemes, unlockedCharts, unlockedStats,
                 selectedThemeId, selectedChart, enabledStats, uiVars, boundVars>>
  /\ runTimerEffects

\* faulty variant: reset also clears the reward currency
resetToHome_ClearsCoins ==
  /\ balance' = Rat(INITIAL_BALANCE)
  /\ portfolio' = Rat(0)
  /\ timeLeft' = SESSION_SECONDS
  /\ mu' = MU_INIT
  /\ sigma' = SIGMA_RESET
  /\ running' = FALSE
  /\ finished' = FALSE
  /\ initialClick' = FALSE
  /\ LET initLen == IF selectedChart = "candle" THEN CANDLE_INIT ELSE LINE_INIT
     IN  prices' \in generateInitialPrices(initLen, START_PRICE)
  /\ settled' = 0
  /\ savedCoins' = Rat(0)
  /\ UNCHANGED <<unlockedThemes, unlockedCharts, unlockedStats,
                 selectedThemeId, selectedChart, enabledStats, uiVars, boundVars>>
  /\ runTimerEffects

\* resetToHome, from the reset and home buttons
resetToHome ==
  /\ balance' = Rat(INITIAL_BALANCE)
  /\ portfolio' = Rat(0)
  /\ timeLeft' = SESSION_SECONDS
  /\ mu' = MU_INIT
  /\ sigma' = SIGMA_RESET
  /\ running' = FALSE
  /\ finished' = FALSE
  /\ initialClick' = FALSE
  /\ LET initLen == IF selectedChart = "candle" THEN CANDLE_INIT ELSE LINE_INIT
     IN  prices' \in generateInitialPrices(initLen, START_PRICE)
  /\ settled' = 0
  /\ UNCHANGED <<economyVars, uiVars, boundVars>>
  /\ runTimerEffects

\* faulty variant: the item is bought whatever the currency
purchaseOutcome_NoFundsCheck(coins, arr, id) ==
  IF Includes(arr, id)
  THEN <<coins, arr>>
  ELSE <<RSub(coins, Rat(ItemPrice(id))), Push(arr, id)>>

\* faulty variant: the item is bought again although it is owned
purchaseOutcome_NoOwnedCheck(coins, arr, id) ==
  IF RLe(Rat(ItemPrice(id)), coins)
  THEN <<RSub(coins, Rat(ItemPrice(id))), Push(arr, id)>>
  ELSE <<coins, arr>>

\* what handlePurchase does to (savedCoins, the item's unlocked array)
purchaseOutcome(coins, arr, id) ==
  IF Includes(arr, id)
  THEN <<coins, arr>>
  ELSE IF RLe(Rat(ItemPrice(id)), coins)
  THEN <<RSub(coins, Rat(ItemPrice(id))), Push(arr, id)>>
  ELSE <<coins, arr>>

\* handlePurchase(item), reached from the shop popup
handlePurchase(id) ==
  /\ showShop
  /\ id \in SHOP_ITEMS
  /\ CASE ItemType(id) = "theme" ->
            /\ savedCoins' = purchaseOutcome(savedCoins, unlockedThemes, id)[1]
            /\ unlockedThemes' = purchaseOutcome(savedCoins, unlockedThemes, id)[2]
            /\ UNCHANGED <<unlockedCharts, unlockedStats>>
       [] ItemType(id) = "chart" ->
            /\ savedCoins' = purchaseOutcome(savedCoins, unlockedCharts, id)[1]
            /\ unlockedCharts' = purchaseOutcome(savedCoins, unlockedCharts, id)[2]
            /\ UNCHANGED <<unlockedThemes, unlockedStats>>
       [] ItemType(id) = "stat" ->
            /\ savedCoins' = purchaseOutcome(savedCoins, unlockedStats, id)[1]
            /\ unlockedStats' = purchaseOutcome(savedCoins, unlockedStats, id)[2]
            /\ UNCHANGED <<unlockedThemes, unlockedCharts>>
  /\ UNCHANGED <<sessionVars, selectedThemeId, selectedChart, enabledStats,
                 uiVars, boundVars, settled>>
  /\ runTimerEffects

\* faulty variant: the theme is selected although it is locked
applyTheme_NoUnlockCheck(id) ==
  /\ showSettings \/ showShop
  /\ selectedThemeId' = id
  /\ UNCHANGED <<sessionVars, savedCoins, unlockedThemes, unlockedCharts,
                 unlockedStats, selectedChart, enabledStats, uiVars,
                 boundVars, settled>>
  /\ runTimerEffects

\* applyTheme(id), from the theme buttons of the settings and shop popups
applyTheme(id) ==
  /\ showSettings \/ showShop
  /\ IF ~Includes(unlockedThemes, id)
     THEN UNCHANGED vars
     ELSE /\ selectedThemeId' = id
          /\ UNCHANGED <<sessionVars, savedCoins, unlockedThemes, unlockedCharts,
                         unlockedStats, selectedChart, enabledStats, uiVars,
                         boundVars, settled>>
          /\ runTimerEffects

toggleStat(id) ==
  /\ showSettings
  /\ IF ~Includes(unlockedStats, id)
     THEN UNCHANGED vars
     ELSE /\ enabledStats' = IF Includes(enabledStats, id)
                             THEN Without(enabledStats, id)
                             ELSE Push(enabledStats, id)
          /\ UNCHANGED <<sessionVars, savedCoins, unlockedThemes, unlockedCharts,
                         unlockedStats, selectedThemeId, selectedChart, uiVars,
                         boundVars, settled>>
          /\ runTimerEffects

\* the chart type buttons of the settings popup, one per unlocked chart
setSelectedChart(id) ==
  /\ showSettings
  /\ Includes(unlockedCharts, id)
  /\ selectedChart' = id
  /\ UNCHANGED <<sessionVars, savedCoins, unlockedThemes, unlockedCharts,
                 unlockedStats, selectedThemeId, enabledStats, uiVars,
                 boundVars, settled>>
  /\ runTimerEffects

\* the slider of the settings popup
setPurchasePercent(p) ==
  /\ showSettings
  /\ purchasePercent' = p
  /\ UNCHANGED <<sessionVars, economyVars, showSettings, showShop,
                 boundVars, settled>>
  /\ runTimerEffects

\* the settings and shop buttons, and the popups' Close buttons
setShowSettings(b) ==
  /\ showSettings' = b
  /\ UNCHANGED <<sessionVars, economyVars, purchasePercent, showShop,
                 boundVars, settled>>
  /\ runTimerEffects

setShowShop(b) ==
  /\ showShop' = b
  /\ UNCHANGED <<sessionVars, economyVars, purchasePercent, showSettings,
                 boundVars, settled>>
  /\ runTimerEffects

(* ------------------------------- Next -------------------------------- *)
Click    == \E rightHalf \in BOOLEAN : handleClick(rightHalf)
Purchase == \E id \in PurchaseTried : handlePurchase(id)
Theme    == \E id \in ThemeTried : applyTheme(id)
Stat     == \E id \in StatTried : toggleStat(id)
Chart    == \E id \in ChartIds : setSelectedChart(id)
Percent  == \E p \in PercentChoices : setPurchasePercent(p)
Settings == \E b \in BOOLEAN : setShowSettings(b)
Shop     == \E b \in BOOLEAN : setShowShop(b)

Next ==
  \/ PriceTick
  \/ CountdownTick
  \/ PadEffect
  \/ FinishEffect
  \/ Click
  \/ resetToHome
  \/ Purchase
  \/ Theme
  \/ Stat
  \/ Chart
  \/ Percent
  \/ Settings
  \/ Shop

Spec == Init /\ [][Next]_vars

(* ----------------------------- fairness ------------------------------ *)
\* The steps of the finish effect, told by what they do to the flags: with the
\* session running and the timer at 0 no other step of Next stops the session
\* and sets finished.
FinishStep ==
  /\ ~(~running \/ timeLeft > 0)
  /\ running' = FALSE
  /\ finished' = TRUE

\* The countdown interval keeps firing while it is live, and React runs the
\* finish effect after the render that makes its condition true.
FairSpec ==
  /\ Spec
  /\ WF_vars(CountdownTick)
  /\ WF_<<running, finished>>(FinishStep)

(* ----------------- the trade branches in floating point --------------- *)
ClickFl   == \E rightHalf \in BOOLEAN : handleClickFl(rightHalf)
PercentFl == \E p \in SliderPositions : setPurchasePercent(p)

NextFloat ==
  \/ PriceTickFl
  \/ ClickFl
  \/ PercentFl
  \/ Settings

SpecFloat == Init /\ [][NextFloat]_vars

(* ------------------- the series over a long run ---------------------- *)
\* The application at home with the candle chart bought: a session was played
\* at 90 % (bought at 100, settled at 140, 36 coins), the candle chart was
\* bought for 25 and the game was reset.
CandleOwnedAtHome ==
  /\ prices \in generateInitialPrices(LINE_INIT, START_PRICE)
  /\ balance = Rat(INITIAL_BALANCE)
  /\ portfolio = Rat(0)
  /\ timeLeft = SESSION_SECONDS
  /\ mu = MU_INIT
  /\ sigma = SIGMA_RESET
  /\ running = FALSE
  /\ finished = FALSE
  /\ initialClick = FALSE
  /\ purchasePercent = 90
  /\ showSettings = FALSE
  /\ showShop = FALSE
  /\ savedCoins = Rat(11)
  /\ unlockedThemes = Push(EmptyArr(ThemeIds), "dark-default")
  /\ selectedThemeId = "dark-default"
  /\ unlockedCharts = Push(Push(EmptyArr(ChartIds), "line"), "candle")
  /\ selectedChart = "line"
  /\ unlockedStats = EmptyArr(StatIds)
  /\ enabledStats = EmptyArr(StatIds)
  /\ priceTimers = setInterval(EmptyArr(ChartIds), "line")
  /\ countdownTimers = 0
  /\ nEvents = 3
  /\ settled = 0

\* the price callback with no limit on the number of ticks
SeriesTick ==
  /\ tickFrom(PriceLevels)
  /\ UNCHANGED nEvents

NextSeries ==
  \/ SeriesTick
  \/ PadEffect
  \/ Chart
  \/ Settings
  \/ resetToHome

SpecSeries == CandleOwnedAtHome /\ [][NextSeries]_vars

(* ------------------------------ phases ------------------------------- *)
Phase ==
  CASE ~initialClick /\ ~running /\ ~finished -> "WaitingToStart"
    [] initialClick /\ running /\ ~finished   -> "Running"
    [] initialClick /\ ~running /\ finished   -> "Finished"
    [] OTHER                                  -> "none"

PopupOpen == showSettings \/ showShop

\* a step that settles the session: the game becomes finished
Settles == ~finished /\ finished'

\* a step that mints reward currency
Mints == RLt(savedCoins, savedCoins')

(* ------------------------------- claims ------------------------------ *)

\* C1: between a start gesture and the next reset the finish effect settles and
\* mints at most once; every step that settles or mints starts with the session
\* running and timeLeft = 0, stops the session and is counted in `settled`; and
\* while the game is finished no step (tick, countdown, click) mints again.
C1_FinishOnce ==
  /\ [][settled' <= 1]_vars
  /\ [][(Settles \/ Mints) =>
          /\ running /\ timeLeft = 0 /\ ~finished
          /\ ~running' /\ finished'
          /\ settled' = settled + 1]_vars
  /\ [][finished => ~Mints /\ balance' \in {balance, Rat(INITIAL_BALANCE)}]_vars

C1_Witness ==
  /\ finished /\ settled = 1 /\ RLt(Rat(0), savedCoins)
  /\ prices.len > LINE_INIT

\* C2: the step that settles the session turns cash c, shares s and last price p
\* into cash c + s * p and shares 0, in phase Finished.
C2_Settlement ==
  [][Settles =>
       /\ balance' = RAdd(balance, RMul(portfolio, Rat(prices.last)))
       /\ portfolio' = Rat(0)
       /\ Phase' = "Finished"]_vars

C2_Witness ==
  /\ finished /\ portfolio = Rat(0)
  /\ balance = Rat(120) /\ prices.last = 140

\* C3: the step that settles the session adds max(0, profitFraction) * 100 to
\* the reward currency, profitFraction = (finalValue - 100) / 100 and
\* finalValue = cash + shares * last price: 20 for a final value of 120, nothing
\* for a final value of 100 or less, and it never lowers the currency.
C3_Mint ==
  [][Settles =>
       LET finalValue == RAdd(balance, RMul(portfolio, Rat(prices.last)))
           fraction   == <<finalValue[1] - 100 * finalValue[2], 100 * finalValue[2]>>
           delta      == IF fraction[1] > 0
                         THEN <<100 * fraction[1], fraction[2]>> ELSE <<0, 1>>
       IN  /\ RSub(savedCoins', savedCoins) = Norm(delta[1], delta[2])
           /\ finalValue = Rat(120) => savedCoins' = RAdd(savedCoins, Rat(20))
           /\ RLe(finalValue, Rat(INITIAL_BALANCE)) => savedCoins' = savedCoins
           /\ RLe(savedCoins, savedCoins')]_vars

C3_Witness == finished /\ balance = Rat(120) /\ savedCoins = Rat(20)

C5_Sell ==
  [][LET sold == /\ balance' = RAdd(balance, RMul(portfolio, Rat(prices.last)))
                 /\ portfolio' = Rat(0)
     IN  /\ (running /\ handleClick(FALSE)) =>
              IF RLt(Rat(0), portfolio) THEN sold
              ELSE UNCHANGED <<balance, portfolio>>
         /\ (running /\ running' /\ RLt(portfolio', portfolio)) => sold]_vars

C5_Witness ==
  /\ running /\ portfolio = Rat(0) /\ balance = Rat(120) /\ prices.last = 140

\* C6: a left-half click while waiting to start, and any click while finished,
\* changes nothing of the session (cash, shares, timer, phase flags, regime,
\* series) nor the reward currency.
C6_Rejected ==
  [][\A r \in BOOLEAN :
       ( /\ handleClick(r)
         /\ \/ Phase = "Finished"
            \/ Phase = "WaitingToStart" /\ ~r ) =>
       UNCHANGED <<sessionVars, savedCoins>>]_vars

C6_Witness == Phase = "Finished" /\ ~PopupOpen /\ nEvents < MaxEvents

\* C7: the right-half click while waiting to start (no popup open, event budget
\* left) can be taken and makes the session running with timeLeft = 60, leaving
\* cash and shares alone; a click that acts while the session is running keeps
\* it running and is a trade: on the right with cash >= 10 it adds shares, on
\* the left with shares > 0 it sells them all.
Started ==
  /\ Phase' = "Running"
  /\ timeLeft' = 60
  /\ UNCHANGED <<balance, portfolio>>

C7_Start ==
  /\ []((Phase = "WaitingToStart" /\ ~PopupOpen /\ nEvents < MaxEvents) =>
         /\ ENABLED (handleClick(TRUE) /\ Started)
         /\ ~ENABLED (handleClick(TRUE) /\ ~Started))
  /\ [][\A r \in BOOLEAN :
          (Phase = "Running" /\ handleClick(r)) =>
            /\ Phase' = "Running"
            /\ (r /\ RLe(Rat(10), balance)) => RLt(portfolio, portfolio')
            /\ (~r /\ RLt(Rat(0), portfolio)) => portfolio' = Rat(0)]_vars

C7_Witness ==
  /\ Phase = "Running" /\ timeLeft = 60 /\ nEvents = 2
  /\ RLt(Rat(0), portfolio)

\* C8: the phase changes only from WaitingToStart to Running by the start
\* gesture, from Running to Finished with the timer at 0, and from Running or
\* Finished to WaitingToStart by reset.
C8_Phases ==
  [][Phase' # Phase =>
       \/ /\ Phase = "WaitingToStart" /\ Phase' = "Running"
          /\ handleClick(TRUE)
       \/ /\ Phase = "Running" /\ Phase' = "Finished"
          /\ timeLeft = 0 /\ timeLeft' = 0
       \/ /\ Phase \in {"Running", "Finished"} /\ Phase' = "WaitingToStart"
          /\ resetToHome]_vars

C8_Witness == Phase = "Running" /\ RLt(Rat(0), savedCoins) /\ timeLeft < 60

\* C9: reset gives balance 100, shares 0, timer 60, the drift and volatility of
\* the application's start, a series of the initial length and start price, and
\* the phase WaitingToStart.
C9_ResetRestoresInitial ==
  [][resetToHome =>
       /\ balance' = Rat(100) /\ portfolio' = Rat(0) /\ timeLeft' = 60
       /\ mu' = MU_INIT /\ sigma' = SIGMA_INIT
       /\ prices'.len = LINE_INIT /\ prices'.first = START_PRICE
       /\ Phase' = "WaitingToStart"]_vars

\* C10: in every step that changes the reward currency or an unlocked array: a
\* purchase adds the item once to its unlocked array and takes exactly its
\* price from the currency (item not owned, currency >= price), and otherwise
\* changes neither; the unlocked arrays change and the currency drops in no
\* other way; and no item is twice in an unlocked array.
UnlockedCount(id) ==
  IF id \in ThemeIds THEN unlockedThemes[id]
  ELSE IF id \in ChartIds THEN unlockedCharts[id]
  ELSE unlockedStats[id]

unlocked == <<unlockedThemes, unlockedCharts, unlockedStats>>

Bought(id) ==
  /\ UnlockedCount(id) = 0
  /\ RLe(Rat(ItemPrice(id)), savedCoins)
  /\ UnlockedCount(id)' = 1
  /\ \A other \in ItemIds \ {id} : UnlockedCount(other)' = UnlockedCount(other)
  /\ savedCoins' = RSub(savedCoins, Rat(ItemPrice(id)))

C10_PurchaseAtomic ==
  [][<<savedCoins, unlocked>>' # <<savedCoins, unlocked>> =>
       /\ \A id \in ItemIds : UnlockedCount(id)' <= 1
       /\ \A id \in SHOP_ITEMS :
            handlePurchase(id) =>
              IF UnlockedCount(id) = 0 /\ RLe(Rat(ItemPrice(id)), savedCoins)
              THEN Bought(id)
              ELSE UNCHANGED <<savedCoins, unlocked>>
       /\ (unlocked' # unlocked \/ RLt(savedCoins', savedCoins)) =>
            \E id \in SHOP_ITEMS : Bought(id)]_vars

C10_Witness ==
  /\ unlockedCharts["candle"] = 1 /\ unlockedThemes["dark-purple"] = 1
  /\ savedCoins = Rat(6)

\* C11: the reward currency is never negative, whatever finalizations and
\* purchases (accepted or refused) have happened.
C11_CoinsNonNegative == RLe(Rat(0), savedCoins)

C11_Witness ==
  /\ showShop /\ savedCoins = Rat(15)
  /\ unlockedThemes["dark-purple"] = 1 /\ unlockedCharts["candle"] = 0

\* C13: the selected theme and chart are unlocked and every enabled indicator
\* is unlocked; applyTheme and toggleStat for a locked item change nothing, and
\* a chart is selected only through the button of an unlocked chart.
SelectionUnlocked ==
  /\ Includes(unlockedThemes, selectedThemeId)
  /\ Includes(unlockedCharts, selectedChart)
  /\ \A id \in StatIds : Includes(enabledStats, id) => Includes(unlockedStats, id)

SelectsUnlocked ==
  /\ selectedThemeId' # selectedThemeId => Includes(unlockedThemes, selectedThemeId')
  /\ selectedChart' # selectedChart => Includes(unlockedCharts, selectedChart')
  /\ \A id \in StatIds :
       enabledStats'[id] # enabledStats[id] => Includes(unlockedStats, id)

LockedRequestIgnored ==
  vars' # vars =>
    /\ \A id \in ThemeIds :
         (~Includes(unlockedThemes, id) /\ applyTheme(id)) => UNCHANGED vars
    /\ \A id \in StatIds :
         (~Includes(unlockedStats, id) /\ toggleStat(id)) => UNCHANGED vars

C13_SelectionUnlocked ==
  /\ []SelectionUnlocked
  /\ [][SelectsUnlocked /\ LockedRequestIgnored]_vars

C13_Witness ==
  /\ selectedThemeId = "dark-purple" /\ selectedChart = "candle"
  /\ enabledStats["sma_short"] = 1

\* C14: timeLeft is an integer in 0..60; it changes only to 60 (start gesture,
\* reset) or, in phase Running and above 0, down by 1; a countdown tick lowers
\* it by 1 while Running and above 0 and otherwise leaves it alone.
C14_Countdown ==
  /\ [](timeLeft \in 0..SESSION_SECONDS)
  /\ [][timeLeft' # timeLeft =>
          \/ timeLeft' = SESSION_SECONDS
          \/ Phase = "Running" /\ timeLeft > 0 /\ timeLeft' = timeLeft - 1]_vars
  /\ [][CountdownTick =>
          timeLeft' = IF Phase = "Running" /\ timeLeft > 0
                      THEN timeLeft - 1 ELSE timeLeft]_vars

C14_Witness == Phase = "Running" /\ timeLeft = 0 /\ countdownTimers = 1

\* C12: shares and cash are never negative.
C12_NonNegative == RLe(Rat(0), portfolio) /\ RLe(Rat(0), balance)

\* C15: in a running session with no shares and cash >= 10, a buy at any slider
\* position followed at once by a sell at the same price gives back exactly
\* the cash held before the buy.
C15_BuySellRoundTrip ==
  (Phase = "Running" /\ portfolio = Rat(0) /\ canBuy(balance)) =>
    \A pct \in SliderPositions :
      LET price  == prices.last
          cash   == cashAfterBuyFl(balance, pct, price)
          shares == sharesAfterBuyFl(portfolio, balance, pct, price)
      IN  cashAfterSellFl(cash, shares, price) = balance

\* C16: exactly one price interval is live, the one of the selected chart (its
\* period is 1000 ms for the line chart and 333 ms for the candle chart), and
\* one countdown interval is live while the session is running and none
\* otherwise.
C16_OneTimerEach ==
  /\ \A chart \in ChartIds :
       priceTimers[chart] = IF chart = selectedChart THEN 1 ELSE 0
  /\ tickMs(selectedChart) = IF selectedChart = "line" THEN 1000 ELSE 333
  /\ countdownTimers = IF running THEN 1 ELSE 0

C16_Witness ==
  /\ selectedChart = "candle" /\ priceTimers["candle"] = 1
  /\ Phase = "WaitingToStart" /\ countdownTimers = 0
  /\ mu # MU_INIT /\ nEvents = 4

\* C17: the series is never longer than the maximum of the selected chart: 100
\* for the line chart, 300 for the candle chart.
C17_SeriesBounded ==
  prices.len <= IF selectedChart = "candle" THEN 300 ELSE 100

\* C18: reset and the start of a session leave the reward currency, the three
\* unlocked arrays, the selected theme and chart, the enabled indicators and
\* purchasePercent as they were.
EconomyKept ==
  UNCHANGED <<savedCoins, unlockedThemes, unlockedCharts, unlockedStats,
              selectedThemeId, selectedChart, enabledStats, purchasePercent>>

StartsSession == Phase = "WaitingToStart" /\ Phase' = "Running"

C18_EconomyPersists ==
  [][EconomyKept \/ ~(resetToHome \/ StartsSession)]_vars

C18_Witness ==
  /\ Phase = "Running" /\ sigma = SIGMA_RESET /\ nEvents = 4
  /\ savedCoins = Rat(11) /\ unlockedCharts["candle"] = 1 /\ purchasePercent = 90

\* C19: a running session eventually is finished or reset, whatever else
\* happens meanwhile, provided the countdown interval keeps firing and the
\* finish effect runs.
C19_SessionEnds ==
  /\ (Phase = "Running") ~> (Phase \in {"Finished", "WaitingToStart"})
  /\ [][FinishStep <=> FinishEffect]_vars

C19_Witness ==
  /\ Phase = "Finished" /\ settled = 1 /\ showSettings /\ showShop
  /\ selectedChart = "candle" /\ nEvents = 4

\* C20: the reward currency changes only by growing in the step that takes the
\* session from Running to Finished, or by dropping by the item's price in a
\* purchase; a step that takes a running or finished session back to
\* WaitingToStart leaves it alone.
PaidFor(id) ==
  /\ handlePurchase(id)
  /\ savedCoins' = RSub(savedCoins, Rat(ItemPrice(id)))

C20_CoinsFrame ==
  /\ [][savedCoins' # savedCoins =>
          \/ /\ Phase = "Running" /\ Phase' = "Finished"
             /\ RLt(savedCoins, savedCoins')
          \/ \E id \in SHOP_ITEMS : PaidFor(id)]_vars
  /\ [][(Phase # "WaitingToStart" /\ Phase' = "WaitingToStart") =>
          savedCoins' = savedCoins]_vars

C20_Witness ==
  /\ Phase = "Running" /\ timeLeft \in 1..59 /\ savedCoins = Rat(0)
  /\ RAdd(balance, RMul(portfolio, Rat(prices.last))) = Rat(136)

\* C21: the flags (initialClick, running, finished) are always in one of three
\* combinations: all false (WaitingToStart), (true, true, false) (Running) or
\* (true, false, true) (Finished); running and finished are never both true,
\* and running or finished implies initialClick.
PhaseFlagCombinations ==
  {<<FALSE, FALSE, FALSE>>, <<TRUE, TRUE, FALSE>>, <<TRUE, FALSE, TRUE>>}

C21_PhaseFlags ==
  /\ <<initialClick, running, finished>> \in PhaseFlagCombinations
  /\ ~(running /\ finished)
  /\ (running \/ finished) => initialClick
  /\ Phase = "WaitingToStart" <=> <<initialClick, running, finished>> = <<FALSE, FALSE, FALSE>>
  /\ Phase = "Running" <=> <<initialClick, running, finished>> = <<TRUE, TRUE, FALSE>>
  /\ Phase = "Finished" <=> <<initialClick, running, finished>> = <<TRUE, FALSE, TRUE>>

\* back at WaitingToStart with the coins of a session that ran and finished
C21_Witness ==
  /\ ~initialClick /\ ~running /\ ~finished
  /\ savedCoins = Rat(20) /\ balance = Rat(INITIAL_BALANCE) /\ timeLeft = SESSION_SECONDS

====
